---- MODULE Spec2Model ----
(***************************************************************************)
(* The request-admission core of u18n: the token-bucket RateLimiter, the   *)
(* RequestThrottler and the Flask routes that compose them around the      *)
(* translation handler.                                                    *)
(*                                                                         *)
(* Numbers.  Time is counted in whole seconds.  The token balance is kept  *)
(* in units of 1/60 token (TokenUnit units = one token), so that the       *)
(* replenishment  time_passed * (requests_per_minute / 60.0)  is the       *)
(* integer  time_passed * requests_per_minute  and every comparison of the *)
(* code is exact.  The code computes in binary floating point; the model   *)
(* computes the same expressions in exact arithmetic.                      *)
(***************************************************************************)
EXTENDS Integers, FiniteSets, TLC

\* ---------------------------------------------------------------- bounds
NumThreads == 2
MaxTime == 2
MaxBurst == 1
MaxConcurrent == 1
MaxCalls == 12
MaxStrays == 1
MaxChars == 1

\* ------------------------------------------------------------- constants
TokenUnit == 60
DefaultRpm == 60
DefaultBurst == 10
TestRpm == 100

Threads == 1..NumThreads
RpmValues == {30, 60}
HandlerStatuses == {200, 400, 500}
\* GET /config (get_config) runs the same gate statements as GET /health
\* (health_check): the route "health" stands for both.
Routes == {"translate", "health"}

RateHeaderNames == {"X-RateLimit-Limit", "X-RateLimit-Remaining", "X-RateLimit-Reset"}
RetryAfterName == "Retry-After"
ThrottleHeaderNames == {"X-Throttle-Limit", "X-Throttle-Usage", "X-Throttle-Remaining"}

VARIABLES
    requests_per_minute, burst, max_concurrent, rate_enabled, throttle_enabled,
    tokens, last_check, rl_lock,
    semaphore, current_requests, th_lock,
    now, tokens0, ret, hist,
    pc, req

config_vars == <<requests_per_minute, burst, max_concurrent, rate_enabled, throttle_enabled>>
limiter_vars == <<tokens, last_check, rl_lock>>
throttler_vars == <<semaphore, current_requests, th_lock>>
hist_vars == <<tokens0, ret, hist>>
vars == <<config_vars, limiter_vars, throttler_vars, now, hist_vars, pc, req>>

\* ---------------------------------------------------------------- helpers
Max(a, b) == IF a >= b THEN a ELSE b
Abs(a) == IF a >= 0 THEN a ELSE -a

\* The quotient rounded down.
TruncDiv_Floor(a, b) == a \div b

\* Python's int(a / b): the quotient truncated towards zero (b # 0).
TruncDiv(a, b) ==
    LET q == Abs(a) \div Abs(b)
    IN IF (a >= 0) = (b > 0) THEN q ELSE -q

\* f"{x:.1f}" of a balance of tk units, as a number of tenths: tk / 6 rounded
\* to the nearest integer, a tie going to the even one.
FormatTenths(tk) ==
    LET q == tk \div 6
        r == tk % 6
    IN IF r < 3 THEN q
       ELSE IF r > 3 THEN q + 1
       ELSE IF q % 2 = 0 THEN q ELSE q + 1

\* dict.update: the entries of d override those of h.
Update(h, d) == d @@ h

\* The headers of a request are kept as the set of their names: the routes only
\* pass the values through, which are those of RateHeaders, DeniedRateHeaders
\* and ThrottleHeaders below.  headers.update(d) adds the names of d.
NoHeaders == {}
Merge(names, d) == names \cup DOMAIN d

\* What is recorded of the gate calls a caller makes on the gate objects
\* themselves.  ret is the last such call: the operation, the (allowed,
\* headers) tuple it returned with the header values, the balance or count it
\* found (prev), the permits it found (prev_sem), the elapsed time it computed
\* and the replenished balance, the time of the call (at) and the Retry-After
\* its caller had been given by the call before (told, -1 when none).  hist
\* counts these calls: calls and allowed are the check() calls made and
\* allowed, strays the release() calls made by a caller that held no slot,
\* since the check() calls allowed from the time an observer began to count
\* (from, -1 when it has not).
NoRet ==
    [op |-> "none", allowed |-> FALSE, headers |-> [n \in {} |-> 0],
     prev |-> 0, prev_sem |-> 0, elapsed |-> 0, balance |-> 0,
     at |-> 0, told |-> -1]
NoHist == [calls |-> 0, allowed |-> 0, strays |-> 0, from |-> -1, since |-> 0]

\* The locals of a request that has not run yet.  route, headers, rate_pass,
\* throttle_pass and status are the locals of the route function; hstatus is the
\* status process_translation_request returned; raised says that an exception
\* left the route function (status stays 0: this code produced no response);
\* gate_result is the local result of a gate call that is under way and
\* gate_cur the value of current_requests that call has read;
\* nCheck, nAcquire, nRelease and nHandler count the calls the request made.
NewRequest(r) ==
    [route |-> r, rate_pass |-> "none", throttle_pass |-> "none",
     headers |-> NoHeaders, status |-> 0, hstatus |-> 0, raised |-> FALSE,
     gate_result |-> "none", gate_cur |-> 0,
     nCheck |-> 0, nAcquire |-> 0, nRelease |-> 0, nHandler |-> 0]

\* ---------------------------------------------------------- RateLimiter
\* A lock that does not exclude.
LockFree_NoExclusion(lock) == TRUE

\* A with block that leaves without giving the lock back.
Unlock_Never(lock, t) == lock

\* The end of a with self.lock block.
Unlock(lock, t) == lock \ {t}

\* with self.lock: the lock can be taken when nobody holds it.
LockFree(lock) == lock = {}

\* Replenishment without the cap.
Replenish_NoCap(tk, dt) == tk + dt * requests_per_minute

\* Replenishment at a rate of requests_per_minute // 60 tokens per second.
Replenish_WholeTokens(tk, dt) ==
    LET t1 == tk + dt * (requests_per_minute \div 60) * TokenUnit
    IN IF t1 > burst * TokenUnit THEN burst * TokenUnit ELSE t1

\* Replenishment at requests_per_minute tokens per second.
Replenish_PerSecond(tk, dt) ==
    LET t1 == tk + dt * requests_per_minute * 60
    IN IF t1 > burst * TokenUnit THEN burst * TokenUnit ELSE t1

\* tokens += time_passed * (rpm / 60.0); if tokens > burst: tokens = burst
Replenish(tk, dt) ==
    LET t1 == tk + dt * requests_per_minute
    IN IF t1 > burst * TokenUnit THEN burst * TokenUnit ELSE t1

\* The headers dict of check(), built from the replenished balance tk.
RateHeaders(tk) ==
    [n \in RateHeaderNames |->
        CASE n = "X-RateLimit-Limit" -> requests_per_minute
          [] n = "X-RateLimit-Remaining" -> FormatTenths(tk)
          [] n = "X-RateLimit-Reset" ->
                TruncDiv(60 * requests_per_minute - tk, requests_per_minute)]

\* if self.tokens >= 1
HasToken(tk) == tk >= TokenUnit

\* int(wait_time), wait_time = (1 - tokens) * (60 / rpm)
RetryAfter(tk) == TruncDiv(TokenUnit - tk, requests_per_minute)

\* The headers of a denied check(): headers['Retry-After'] is added.
DeniedRateHeaders(tk) ==
    Update(RateHeaders(tk), [n \in {RetryAfterName} |-> RetryAfter(tk)])

\* A check() that takes no token from the balance.
Deduct_Nothing(tk) == tk

\* self.tokens -= 1
Deduct(tk) == tk - TokenUnit

\* A check() that deducts a token whether it allows or denies.
Settle_AlwaysDeduct(tk, ok) == tk - TokenUnit

\* A check() that throws the fraction of a token away when it denies.
Settle_DropFraction(tk, ok) == IF ok THEN tk - TokenUnit ELSE 0

\* The balance check() leaves: if self.tokens >= 1: self.tokens -= 1; else
\* the replenished balance stays.
Settle(tk, ok) == IF ok THEN Deduct(tk) ELSE tk

\* ------------------------------------------------------ RequestThrottler
\* A semaphore acquired with blocking=True: the call waits for a permit.
PermitWait_Blocking(sem) == sem > 0

\* self.semaphore.acquire(blocking=False): the call does not wait for a
\* permit, whatever the semaphore holds.
PermitWait(sem) == TRUE

\* A semaphore that hands out a permit it does not have.
SemTryAcquire_NoPermitNeeded(sem) == sem >= 0

\* self.semaphore.acquire(blocking=False): succeeds when a permit is left.
SemTryAcquire(sem) == sem > 0

\* The count incremented whatever the semaphore answered.
CountAfterAcquire_Always(cur, ok) == cur + 1

\* if result: self.current_requests += 1
CountAfterAcquire(cur, ok) == IF ok THEN cur + 1 ELSE cur

\* A release() that leaves the count as it is.
ReleaseCount_Unchanged(cur) == cur

\* self.current_requests = max(0, self.current_requests - 1)
ReleaseCount(cur) == Max(0, cur - 1)

\* The headers dict of acquire(), built after current_requests was updated.
ThrottleHeaders(cur, result) ==
    [n \in ThrottleHeaderNames |->
        CASE n = "X-Throttle-Limit" -> max_concurrent
          [] n = "X-Throttle-Usage" -> cur
          [] n = "X-Throttle-Remaining" ->
                IF result THEN max_concurrent - cur ELSE 0]

\* ----------------------------------------------------------------- routes
RateDeniedStatus == 429

\* A throttle denial answered with the rate limiter's status.
ThrottleDeniedStatus_AsRateDenied == RateDeniedStatus

ThrottleDeniedStatus == 503
OkStatus == 200

\* What a route does once both gates are behind it without throttling:
\* /translate runs the handler, /health and /config answer 200.
Unthrottled(rq) ==
    IF rq.route = "translate"
    THEN <<"handler", [rq EXCEPT !.nHandler = @ + 1]>>
    ELSE <<"done", [rq EXCEPT !.status = OkStatus]>>

\* if config["throttling"]["enabled"]: ... else: ...
AfterRate(rq) ==
    IF throttle_enabled THEN <<"acquire", rq>> ELSE Unthrottled(rq)

\* A route that goes to the throttler without calling check().
FirstStep_SkipRateCheck(rq) == AfterRate(rq)

\* A route that calls check() whether or not rate limiting is enabled.
FirstStep_AlwaysCheck(rq) == <<"check", rq>>

\* if config["rate_limit"]["enabled"]: ...
FirstStep(rq) ==
    IF rate_enabled THEN <<"check", rq>> ELSE AfterRate(rq)

\* A route that answers 429 to any request check() denied, /health and
\* /config included.
AfterCheck_RejectAnyRoute(rq) ==
    IF rq.rate_pass = "no"
    THEN <<"done", [rq EXCEPT !.status = RateDeniedStatus]>>
    ELSE AfterRate(rq)

\* A route that goes on to the throttler after a denied check().
AfterCheck_NoShortCircuit(rq) == AfterRate(rq)

\* What the route does with the result of rate_limiter.check().
AfterCheck(rq) ==
    IF rq.route = "translate" /\ rq.rate_pass = "no"
    THEN <<"done", [rq EXCEPT !.status = RateDeniedStatus]>>
    ELSE AfterRate(rq)

\* A route that runs the handler after a denied acquire().
AfterAcquire_IgnoreDenial(rq) ==
    IF rq.route = "translate"
    THEN <<"handler", [rq EXCEPT !.nHandler = @ + 1]>>
    ELSE <<"release", rq>>

\* What the route does with the result of request_throttler.acquire().
AfterAcquire(rq) ==
    IF rq.route = "translate"
    THEN IF rq.throttle_pass = "no"
         THEN <<"done", [rq EXCEPT !.status = ThrottleDeniedStatus]>>
         ELSE <<"handler", [rq EXCEPT !.nHandler = @ + 1]>>
    ELSE <<"release", rq>>

\* A route without the finally: an exception skips the release.
AfterHandler_NoFinally(rq) ==
    IF throttle_enabled /\ ~rq.raised
    THEN <<"release", rq>>
    ELSE <<"done", IF rq.raised THEN rq ELSE [rq EXCEPT !.status = rq.hstatus]>>

\* Where the route goes when the handler has returned or raised: into the
\* finally block when throttling is enabled, out of the function otherwise.
AfterHandler(rq) ==
    IF throttle_enabled
    THEN <<"release", rq>>
    ELSE <<"done", IF rq.raised THEN rq ELSE [rq EXCEPT !.status = rq.hstatus]>>

\* A route that answers with the fallback status after an exception.
AfterRelease_SwallowError(rq) ==
    <<"done", [rq EXCEPT !.status = IF rq.raised THEN 500 ELSE rq.hstatus]>>

\* What the route returns after request_throttler.release().
AfterRelease(rq) ==
    IF rq.route = "translate"
    THEN <<"done", IF rq.raised THEN rq ELSE [rq EXCEPT !.status = rq.hstatus]>>
    ELSE <<"done", [rq EXCEPT !.status = OkStatus]>>

\* A gate call made on the gate object itself returns to its caller; one made
\* by a route goes on in the route.
DirectCalls == {"check", "acquire", "release", "stray"}
Returned(rq, direct, routed) == IF rq.route \in DirectCalls THEN direct ELSE routed

Goto(t, step) ==
    /\ pc' = [pc EXCEPT ![t] = step[1]]
    /\ req' = [req EXCEPT ![t] = step[2]]

\* ------------------------------------------------------------------- Init
InitService ==
    /\ rate_enabled \in BOOLEAN
    /\ throttle_enabled \in BOOLEAN
    /\ tokens = burst * TokenUnit
    /\ tokens0 = tokens
    /\ ret = NoRet
    /\ hist = NoHist
    /\ now = 0
    /\ last_check = now
    /\ rl_lock = {}
    /\ semaphore = max_concurrent
    /\ current_requests = 0
    /\ th_lock = {}
    /\ pc = [t \in Threads |-> "idle"]
    /\ req = [t \in Threads |-> NewRequest("none")]

\* A configuration with a positive rate, burst and capacity.
Init ==
    /\ requests_per_minute \in RpmValues
    /\ burst \in 1..MaxBurst
    /\ max_concurrent \in 1..MaxConcurrent
    /\ InitService

\* ---------------------------------------------------------------- actions
\* A worker thread takes the next request.
StartRequest(t, r) ==
    /\ pc[t] \in {"idle", "done"}
    /\ Goto(t, FirstStep(NewRequest(r)))
    /\ UNCHANGED <<config_vars, limiter_vars, throttler_vars, now, hist_vars>>

\* rate_limiter.check(), the whole call under its lock: read the clock,
\* replenish, cap, build the headers, then deduct a token or add Retry-After;
\* the route merges the headers and acts on the result.  With
\* requests_per_minute = 0 building the headers divides by zero: the exception
\* leaves check() after tokens and last_check were written, and leaves the route.
Check(t) ==
    /\ pc[t] = "check"
    /\ LockFree(rl_lock)
    /\ LET tk == Replenish(tokens, now - last_check)
           rq == [req[t] EXCEPT !.nCheck = @ + 1]
       IN /\ last_check' = now
          /\ IF requests_per_minute = 0
             THEN /\ tokens' = tk
                  /\ Goto(t, <<"done", [rq EXCEPT !.raised = TRUE]>>)
             ELSE IF HasToken(tk)
             THEN /\ tokens' = Settle(tk, TRUE)
                  /\ Goto(t, AfterCheck([rq EXCEPT !.rate_pass = "yes",
                                                   !.headers = Merge(@, RateHeaders(tk))]))
             ELSE /\ tokens' = Settle(tk, FALSE)
                  /\ Goto(t, AfterCheck([rq EXCEPT !.rate_pass = "no",
                                                   !.headers = Merge(@, DeniedRateHeaders(tk))]))
    /\ UNCHANGED <<config_vars, rl_lock, throttler_vars, now, hist_vars>>

\* request_throttler.acquire(), the whole call under its lock.
Acquire(t) ==
    /\ pc[t] = "acquire"
    /\ LockFree(th_lock)
    /\ LET ok == SemTryAcquire(semaphore)
           cur == CountAfterAcquire(current_requests, ok)
       IN /\ semaphore' = IF ok THEN semaphore - 1 ELSE semaphore
          /\ current_requests' = cur
          /\ Goto(t, AfterAcquire([req[t] EXCEPT !.throttle_pass = IF ok THEN "yes" ELSE "no",
                                                 !.headers = Merge(@, ThrottleHeaders(cur, ok)),
                                                 !.nAcquire = @ + 1]))
    /\ UNCHANGED <<config_vars, limiter_vars, th_lock, now, hist_vars>>

\* process_translation_request returns (response, status).
HandlerReturn(t, st) ==
    /\ pc[t] = "handler"
    /\ Goto(t, AfterHandler([req[t] EXCEPT !.hstatus = st]))
    /\ UNCHANGED <<config_vars, limiter_vars, throttler_vars, now, hist_vars>>

\* An exception leaves process_translation_request.
HandlerRaise(t) ==
    /\ pc[t] = "handler"
    /\ Goto(t, AfterHandler([req[t] EXCEPT !.raised = TRUE]))
    /\ UNCHANGED <<config_vars, limiter_vars, throttler_vars, now, hist_vars>>

\* request_throttler.release(), the whole call under its lock.
Release(t) ==
    /\ pc[t] = "release"
    /\ LockFree(th_lock)
    /\ current_requests' = ReleaseCount(current_requests)
    /\ semaphore' = semaphore + 1
    /\ Goto(t, AfterRelease([req[t] EXCEPT !.nRelease = @ + 1]))
    /\ UNCHANGED <<config_vars, limiter_vars, th_lock, now, hist_vars>>

\* time.time() advances by a second.
Tick ==
    /\ now < MaxTime
    /\ now' = now + 1
    /\ UNCHANGED <<config_vars, limiter_vars, throttler_vars, hist_vars, pc, req>>

Next ==
    \/ \E t \in Threads, r \in Routes : StartRequest(t, r)
    \/ \E t \in Threads : Check(t)
    \/ \E t \in Threads : Acquire(t)
    \/ \E t \in Threads, st \in HandlerStatuses : HandlerReturn(t, st)
    \/ \E t \in Threads : HandlerRaise(t)
    \/ \E t \in Threads : Release(t)
    \/ Tick

\* The service under a configuration with a positive rate, burst and capacity
\* and a clock that does not step backwards.
Spec == Init /\ [][Next]_vars

\* What initialize_services and the two constructors reject of a
\* configuration: RateLimiter stores whatever it is given, RequestThrottler
\* hands max_concurrent to threading.Semaphore, which raises ValueError for a
\* negative value and for nothing else.
ConstructorAccepts(rpm, b, mc) == mc >= 0

\* The service under any configuration the constructors accept, with a rate,
\* burst or capacity of zero, and a negative rate or burst, included.
InitAnyConfig ==
    /\ requests_per_minute \in RpmValues \cup {0, -30}
    /\ burst \in -1..MaxBurst
    /\ max_concurrent \in -1..MaxConcurrent
    /\ ConstructorAccepts(requests_per_minute, burst, max_concurrent)
    /\ InitService

SpecAnyConfig == InitAnyConfig /\ [][Next]_vars

\* -------------------------------------------- check() statement by statement
\* Threads that call rate_limiter.check() directly, at one instant (the clock
\* does not move), on a limiter whose balance is any value in [0, burst].
\* check() is taken in two steps, so that what its lock does is visible.
InitSameInstant ==
    /\ requests_per_minute \in RpmValues
    /\ burst \in 1..MaxBurst
    /\ max_concurrent \in 1..MaxConcurrent
    /\ rate_enabled = TRUE
    /\ throttle_enabled = FALSE
    /\ tokens \in 0..(burst * TokenUnit)
    /\ tokens0 = tokens
    /\ ret = NoRet
    /\ hist = NoHist
    /\ now = 0
    /\ last_check = now
    /\ rl_lock = {}
    /\ semaphore = max_concurrent
    /\ current_requests = 0
    /\ th_lock = {}
    /\ pc = [t \in Threads |-> "idle"]
    /\ req = [t \in Threads |-> NewRequest("none")]

\* A thread is about to call check().
CallCheck(t) ==
    /\ pc[t] = "idle"
    /\ Goto(t, <<"check", NewRequest("check")>>)
    /\ UNCHANGED <<config_vars, limiter_vars, throttler_vars, now, hist_vars>>

\* check(), lines 24-43: take the lock, read the clock, replenish, cap, build
\* the headers and test the balance.
CheckEnter(t) ==
    /\ pc[t] = "check"
    /\ LockFree(rl_lock)
    /\ rl_lock' = rl_lock \cup {t}
    /\ LET tk == Replenish(tokens, now - last_check)
       IN /\ last_check' = now
          /\ tokens' = tk
          /\ Goto(t, <<"check_locked",
                       [req[t] EXCEPT !.gate_result = IF HasToken(tk) THEN "yes" ELSE "no",
                                      !.nCheck = @ + 1]>>)
    /\ UNCHANGED <<config_vars, throttler_vars, now, hist_vars>>

\* check(), lines 44-51: deduct the token or add Retry-After, give the lock
\* back and return.
CheckExit(t) ==
    /\ pc[t] = "check_locked"
    /\ LET rq == req[t]
           ok == rq.gate_result = "yes"
           out == [rq EXCEPT !.rate_pass = rq.gate_result,
                             !.gate_result = "none",
                             !.headers = IF ok THEN Merge(@, RateHeaders(tokens))
                                         ELSE Merge(@, DeniedRateHeaders(tokens))]
       IN /\ tokens' = Settle(tokens, ok)
          /\ Goto(t, Returned(rq, <<"done", out>>, AfterCheck(out)))
    /\ rl_lock' = Unlock(rl_lock, t)
    /\ UNCHANGED <<config_vars, last_check, throttler_vars, now, hist_vars>>

NextSameInstant ==
    \/ \E t \in Threads : CallCheck(t)
    \/ \E t \in Threads : CheckEnter(t)
    \/ \E t \in Threads : CheckExit(t)

SpecSameInstant == InitSameInstant /\ [][NextSameInstant]_vars

\* ------------------------------------------- one caller of the rate limiter
\* A single caller of rate_limiter.check() on a freshly built limiter, with
\* the rates of the default and of the test configuration, a rate lower than
\* the burst, and every burst up to the default one.  The caller makes at
\* most MaxCalls calls; the clock advances between calls.
LimiterRpmValues == RpmValues \cup {DefaultRpm, TestRpm} \cup {7}

InitLimiter ==
    /\ requests_per_minute \in LimiterRpmValues
    /\ burst \in 1..DefaultBurst
    /\ max_concurrent \in 1..MaxConcurrent
    /\ rate_enabled = TRUE
    /\ throttle_enabled = FALSE
    /\ tokens = burst * TokenUnit
    /\ tokens0 = tokens
    /\ ret = NoRet
    /\ hist = NoHist
    /\ now = 0
    /\ last_check = now
    /\ rl_lock = {}
    /\ semaphore = max_concurrent
    /\ current_requests = 0
    /\ th_lock = {}
    /\ pc = [t \in Threads |-> "idle"]
    /\ req = [t \in Threads |-> NewRequest("none")]

\* The Retry-After the caller was given by its last call, when that call was
\* a denied check(); -1 otherwise.
Told ==
    IF ret.op = "check" /\ ~ret.allowed THEN ret.headers[RetryAfterName] ELSE -1

\* One call of check(), with what it returned recorded in ret.
DirectCheck ==
    /\ hist.calls < MaxCalls
    /\ LockFree(rl_lock)
    /\ LET dt == now - last_check
           tk == Replenish(tokens, dt)
           ok == HasToken(tk)
       IN /\ last_check' = now
          /\ tokens' = Settle(tk, ok)
          /\ ret' = [op |-> "check", allowed |-> ok,
                     headers |-> IF ok THEN RateHeaders(tk) ELSE DeniedRateHeaders(tk),
                     prev |-> tokens, prev_sem |-> semaphore,
                     elapsed |-> dt, balance |-> tk,
                     at |-> now, told |-> Told]
          /\ hist' = [hist EXCEPT !.calls = @ + 1,
                                  !.allowed = IF ok THEN @ + 1 ELSE @,
                                  !.since = IF ok /\ hist.from >= 0 THEN @ + 1 ELSE @]
    /\ UNCHANGED <<config_vars, rl_lock, throttler_vars, now, tokens0, pc, req>>

\* An observer starts counting the allowed calls: the interval it watches
\* begins now.
ObserveFrom ==
    /\ hist.from < 0
    /\ hist' = [hist EXCEPT !.from = now, !.since = 0]
    /\ UNCHANGED <<config_vars, limiter_vars, throttler_vars, now, tokens0, ret, pc, req>>

NextLimiter ==
    \/ DirectCheck
    \/ Tick
    \/ ObserveFrom

SpecLimiter == InitLimiter /\ [][NextLimiter]_vars

\* --------------------------------------- check() called for ever as time passes
\* A single caller that never stops calling check() while the clock never
\* stops advancing.  check() depends on the clock through now - last_check
\* only, so the clock is read from the time of the last call: a call leaves
\* now and last_check at 0, and Tick counts the seconds since then, up to
\* MaxTime (a longer wait is a wait of MaxTime seconds followed by calls that
\* come sooner).
RepeatedCheck ==
    /\ LockFree(rl_lock)
    /\ LET dt == now - last_check
           tk == Replenish(tokens, dt)
           ok == HasToken(tk)
       IN /\ tokens' = Settle(tk, ok)
          /\ ret' = [op |-> "check", allowed |-> ok,
                     headers |-> IF ok THEN RateHeaders(tk) ELSE DeniedRateHeaders(tk),
                     prev |-> tokens, prev_sem |-> semaphore,
                     elapsed |-> dt, balance |-> tk,
                     at |-> 0, told |-> Told]
    /\ now' = 0
    /\ last_check' = 0
    /\ UNCHANGED <<config_vars, rl_lock, throttler_vars, tokens0, hist, pc, req>>

NextForever ==
    \/ RepeatedCheck
    \/ Tick

\* Time keeps advancing and check() keeps being called.
FairSpecLimiter ==
    InitLimiter /\ [][NextForever]_vars /\ WF_vars(Tick) /\ WF_vars(RepeatedCheck)

\* ------------------------------------- acquire() and release() by statement
\* Threads that call request_throttler.acquire() and release() directly.  A
\* thread whose acquire() was allowed holds a slot until it calls release();
\* a thread that holds no slot may call release() as well (a stray release, as
\* health_check makes after a denied acquire()), at most MaxStrays times.
\* Each call is taken in two steps: taking the lock, trying the semaphore and
\* reading current_requests; then writing current_requests, building the
\* headers and leaving the lock.
InitThrottler ==
    /\ requests_per_minute \in RpmValues
    /\ burst \in 1..MaxBurst
    /\ max_concurrent \in 1..MaxConcurrent
    /\ rate_enabled = FALSE
    /\ throttle_enabled = TRUE
    /\ tokens = burst * TokenUnit
    /\ tokens0 = tokens
    /\ ret = NoRet
    /\ hist = NoHist
    /\ now = 0
    /\ last_check = now
    /\ rl_lock = {}
    /\ semaphore = max_concurrent
    /\ current_requests = 0
    /\ th_lock = {}
    /\ pc = [t \in Threads |-> "idle"]
    /\ req = [t \in Threads |-> NewRequest("none")]

StraysInFlight ==
    {t \in Threads : req[t].route = "stray" /\ pc[t] \in {"release", "release_locked"}}

CallAcquire(t) ==
    /\ pc[t] \in {"idle", "done"}
    /\ Goto(t, <<"acquire", NewRequest("acquire")>>)
    /\ UNCHANGED <<config_vars, limiter_vars, throttler_vars, now, hist_vars>>

\* with self.lock: result = self.semaphore.acquire(blocking=False), and the
\* read of self.current_requests by the += that follows.
AcquireEnter(t) ==
    /\ pc[t] = "acquire"
    /\ LockFree(th_lock)
    /\ PermitWait(semaphore)
    /\ th_lock' = th_lock \cup {t}
    /\ LET ok == SemTryAcquire(semaphore)
       IN /\ semaphore' = IF ok THEN semaphore - 1 ELSE semaphore
          /\ Goto(t, <<"acquire_locked",
                       [req[t] EXCEPT !.gate_result = IF ok THEN "yes" ELSE "no",
                                      !.gate_cur = current_requests,
                                      !.nAcquire = @ + 1]>>)
    /\ UNCHANGED <<config_vars, limiter_vars, current_requests, now, hist_vars>>

\* The write of self.current_requests (there is none when the count is not
\* incremented), the headers, the end of the with block and the return.
AcquireExit(t) ==
    /\ pc[t] = "acquire_locked"
    /\ LET ok == req[t].gate_result = "yes"
           cur == CountAfterAcquire(req[t].gate_cur, ok)
           out == [req[t] EXCEPT !.throttle_pass = IF ok THEN "yes" ELSE "no",
                                 !.gate_result = "none", !.gate_cur = 0,
                                 !.headers = Merge(@, ThrottleHeaders(cur, ok))]
       IN /\ current_requests' = IF cur = req[t].gate_cur THEN current_requests ELSE cur
          /\ ret' = Returned(req[t],
                             [op |-> "acquire", allowed |-> ok,
                              headers |-> ThrottleHeaders(cur, ok),
                              prev |-> req[t].gate_cur,
                              prev_sem |-> IF ok THEN semaphore + 1 ELSE semaphore,
                              elapsed |-> 0, balance |-> cur,
                              at |-> now, told |-> -1],
                             ret)
          /\ Goto(t, Returned(req[t], <<IF ok THEN "holding" ELSE "done", out>>,
                               AfterAcquire(out)))
    /\ th_lock' = Unlock(th_lock, t)
    /\ UNCHANGED <<config_vars, limiter_vars, semaphore, now, tokens0, hist>>

\* A holder calls release().
CallRelease(t) ==
    /\ pc[t] = "holding"
    /\ Goto(t, <<"release", NewRequest("release")>>)
    /\ UNCHANGED <<config_vars, limiter_vars, throttler_vars, now, hist_vars>>

\* A thread that holds no slot calls release().
CallStrayRelease(t) ==
    /\ pc[t] \in {"idle", "done"}
    /\ hist.strays + Cardinality(StraysInFlight) < MaxStrays
    /\ Goto(t, <<"release", NewRequest("stray")>>)
    /\ UNCHANGED <<config_vars, limiter_vars, throttler_vars, now, hist_vars>>

\* with self.lock, and the read of self.current_requests.
ReleaseEnter(t) ==
    /\ pc[t] = "release"
    /\ LockFree(th_lock)
    /\ th_lock' = th_lock \cup {t}
    /\ Goto(t, <<"release_locked",
                 [req[t] EXCEPT !.gate_cur = current_requests, !.nRelease = @ + 1]>>)
    /\ UNCHANGED <<config_vars, limiter_vars, semaphore, current_requests, now, hist_vars>>

\* self.current_requests = max(0, ... - 1); self.semaphore.release(); the end
\* of the with block.
ReleaseExit(t) ==
    /\ pc[t] = "release_locked"
    /\ current_requests' = ReleaseCount(req[t].gate_cur)
    /\ semaphore' = semaphore + 1
    /\ ret' = Returned(req[t],
                       [op |-> "release", allowed |-> TRUE, headers |-> NoRet.headers,
                        prev |-> req[t].gate_cur, prev_sem |-> semaphore,
                        elapsed |-> 0, balance |-> ReleaseCount(req[t].gate_cur),
                        at |-> now, told |-> -1],
                       ret)
    /\ hist' = [hist EXCEPT !.strays = IF req[t].route = "stray" THEN @ + 1 ELSE @]
    /\ LET out == [req[t] EXCEPT !.gate_cur = 0]
       IN Goto(t, Returned(req[t], <<"done", out>>, AfterRelease(out)))
    /\ th_lock' = Unlock(th_lock, t)
    /\ UNCHANGED <<config_vars, limiter_vars, now, tokens0>>

NextThrottler ==
    \/ \E t \in Threads : CallAcquire(t)
    \/ \E t \in Threads : AcquireEnter(t)
    \/ \E t \in Threads : AcquireExit(t)
    \/ \E t \in Threads : CallRelease(t)
    \/ \E t \in Threads : CallStrayRelease(t)
    \/ \E t \in Threads : ReleaseEnter(t)
    \/ \E t \in Threads : ReleaseExit(t)

SpecThrottler == InitThrottler /\ [][NextThrottler]_vars

\* ------------------------------------------ the routes, gates by statement
\* The service of Spec with every gate call taken in the two steps above, so
\* that the threads that hold the limiter's lock and the throttler's lock are
\* visible while other requests run.
NextFine ==
    \/ \E t \in Threads, r \in Routes : StartRequest(t, r)
    \/ \E t \in Threads : CheckEnter(t)
    \/ \E t \in Threads : CheckExit(t)
    \/ \E t \in Threads : AcquireEnter(t)
    \/ \E t \in Threads : AcquireExit(t)
    \/ \E t \in Threads, st \in HandlerStatuses : HandlerReturn(t, st)
    \/ \E t \in Threads : HandlerRaise(t)
    \/ \E t \in Threads : ReleaseEnter(t)
    \/ \E t \in Threads : ReleaseExit(t)

\* The clock stands still here: neither lock depends on it.
SpecFine == Init /\ [][NextFine]_vars

\* ---------------------------------------------- direct calls on both gates
\* Threads that call check(), acquire() and release() on the two gate objects
\* in any order, each call in two steps; release() is called by holders.  The
\* gates are built with the largest burst and capacity of the bounds.
InitCalls ==
    /\ requests_per_minute = DefaultRpm
    /\ burst = MaxBurst
    /\ max_concurrent = MaxConcurrent
    /\ rate_enabled = TRUE
    /\ throttle_enabled = TRUE
    /\ tokens = burst * TokenUnit
    /\ tokens0 = tokens
    /\ ret = NoRet
    /\ hist = NoHist
    /\ now = 0
    /\ last_check = now
    /\ rl_lock = {}
    /\ semaphore = max_concurrent
    /\ current_requests = 0
    /\ th_lock = {}
    /\ pc = [t \in Threads |-> "idle"]
    /\ req = [t \in Threads |-> NewRequest("none")]

CallCheckAgain(t) ==
    /\ pc[t] = "done"
    /\ Goto(t, <<"check", NewRequest("check")>>)
    /\ UNCHANGED <<config_vars, limiter_vars, throttler_vars, now, hist_vars>>

NextCalls ==
    \/ \E t \in Threads : CallCheck(t)
    \/ \E t \in Threads : CallCheckAgain(t)
    \/ \E t \in Threads : CheckEnter(t)
    \/ \E t \in Threads : CheckExit(t)
    \/ \E t \in Threads : CallAcquire(t)
    \/ \E t \in Threads : AcquireEnter(t)
    \/ \E t \in Threads : AcquireExit(t)
    \/ \E t \in Threads : CallRelease(t)
    \/ \E t \in Threads : ReleaseEnter(t)
    \/ \E t \in Threads : ReleaseExit(t)

InCall(t) ==
    pc[t] \in {"check", "check_locked", "acquire", "acquire_locked",
               "release", "release_locked"}

\* The scheduler is fair: a thread inside a gate call goes on running (weak
\* fairness of the step that leaves the lock), and a thread that finds the
\* lock free again and again gets it in the end (strong fairness of the step
\* that takes it).  Nothing is assumed of when a thread makes its next call
\* or gives its slot back.
FairGates ==
    \A t \in Threads :
        /\ SF_vars(CheckEnter(t))
        /\ WF_vars(CheckExit(t))
        /\ SF_vars(AcquireEnter(t))
        /\ WF_vars(AcquireExit(t))
        /\ SF_vars(ReleaseEnter(t))
        /\ WF_vars(ReleaseExit(t))

FairSpecCalls == InitCalls /\ [][NextCalls]_vars /\ FairGates

\* --------------------------------------------------- the wall clock set back
\* check() reads time.time(), the wall clock of the host, which an operator or
\* a time synchronisation can set back while the service runs.
ClockStepBack ==
    /\ now > 0
    /\ now' = now - 1
    /\ UNCHANGED <<config_vars, limiter_vars, throttler_vars, hist_vars, pc, req>>

NextWallClock ==
    \/ Next
    \/ ClockStepBack

SpecWallClock == Init /\ [][NextWallClock]_vars

\* ------------------------------------------- the decorators of middleware.py
\* apply_rate_limit(apply_throttling(f)) serving requests next to the inline
\* /translate route, on the same limiter and the same throttler.  A decorated
\* request has route "decorated"; its headers are those set on the response
\* object, and the headers dict each decorator holds is the one its gate
\* returned: the names of check() after rate_pass, those of acquire().
RateNames(rq) ==
    IF rq.rate_pass = "no" THEN RateHeaderNames \cup {RetryAfterName}
    ELSE RateHeaderNames

\* add_headers(response, headers_dict): response.headers[name] = value for
\* every entry.  The decorators hand it two kinds of object: the "Response"
\* the wrapped function returned and the "dict" literal of a denial.  A dict
\* has no attribute headers: the first entry raises AttributeError.
add_headers(rq, kind, names) ==
    IF names = {} THEN rq
    ELSE IF kind = "dict" THEN [rq EXCEPT !.raised = TRUE]
    ELSE [rq EXCEPT !.headers = @ \cup names]

\* return <response>, status: the tuple is built when add_headers returned.
Answer(rq, st) == IF rq.raised THEN rq ELSE [rq EXCEPT !.status = st]

\* apply_throttling's decorated_function up to its gate call.
Inner(rq) ==
    IF throttle_enabled THEN <<"dacquire", rq>>
    ELSE <<"dhandler", [rq EXCEPT !.nHandler = @ + 1]>>

\* apply_rate_limit's decorated_function up to its gate call.
Outer(rq) ==
    IF rate_enabled THEN <<"dcheck", rq>> ELSE Inner(rq)

\* apply_rate_limit's decorated_function once f has returned (response,
\* status_code), with a response of the given kind, or has raised.
OuterReturn(rq, kind) ==
    IF rq.raised \/ ~rate_enabled THEN <<"done", rq>>
    ELSE <<"done", Answer(add_headers([rq EXCEPT !.status = 0], kind, RateNames(rq)),
                          rq.status)>>

\* apply_rate_limit after rate_limiter.check().
AfterDecoratedCheck(rq) ==
    IF rq.rate_pass = "no"
    THEN <<"done", Answer(add_headers(rq, "dict", RateNames(rq)), RateDeniedStatus)>>
    ELSE Inner(rq)

\* apply_throttling after request_throttler.acquire().
AfterDecoratedAcquire(rq) ==
    IF rq.throttle_pass = "no"
    THEN OuterReturn(Answer(add_headers(rq, "dict", ThrottleHeaderNames),
                            ThrottleDeniedStatus), "dict")
    ELSE <<"dhandler", [rq EXCEPT !.nHandler = @ + 1]>>

\* apply_throttling when f has returned or raised: inside the try, the
\* headers go on the response and the finally block follows; without
\* throttling the result of f is the result of the decorator.
AfterDecoratedHandler(rq) ==
    IF throttle_enabled
    THEN <<"drelease",
           IF rq.raised THEN rq
           ELSE Answer(add_headers(rq, "Response", ThrottleHeaderNames), rq.hstatus)>>
    ELSE OuterReturn(Answer(rq, rq.hstatus), "Response")

\* apply_throttling after the release() of its finally block.
AfterDecoratedRelease(rq) == OuterReturn(rq, "Response")

\* A worker thread calls the decorated function.
StartDecorated(t) ==
    /\ pc[t] \in {"idle", "done"}
    /\ Goto(t, Outer(NewRequest("decorated")))
    /\ UNCHANGED <<config_vars, limiter_vars, throttler_vars, now, hist_vars>>

\* rate_limiter.check() called by apply_rate_limit, the whole call under its
\* lock.
DecoratedCheck(t) ==
    /\ pc[t] = "dcheck"
    /\ LockFree(rl_lock)
    /\ LET tk == Replenish(tokens, now - last_check)
           rq == [req[t] EXCEPT !.nCheck = @ + 1]
       IN /\ last_check' = now
          /\ IF requests_per_minute = 0
             THEN /\ tokens' = tk
                  /\ Goto(t, <<"done", [rq EXCEPT !.raised = TRUE]>>)
             ELSE /\ tokens' = Settle(tk, HasToken(tk))
                  /\ Goto(t, AfterDecoratedCheck(
                                [rq EXCEPT !.rate_pass = IF HasToken(tk) THEN "yes" ELSE "no"]))
    /\ UNCHANGED <<config_vars, rl_lock, throttler_vars, now, hist_vars>>

\* request_throttler.acquire() called by apply_throttling, the whole call
\* under its lock.
DecoratedAcquire(t) ==
    /\ pc[t] = "dacquire"
    /\ LockFree(th_lock)
    /\ LET ok == SemTryAcquire(semaphore)
       IN /\ semaphore' = IF ok THEN semaphore - 1 ELSE semaphore
          /\ current_requests' = CountAfterAcquire(current_requests, ok)
          /\ Goto(t, AfterDecoratedAcquire(
                        [req[t] EXCEPT !.throttle_pass = IF ok THEN "yes" ELSE "no",
                                       !.nAcquire = @ + 1]))
    /\ UNCHANGED <<config_vars, limiter_vars, th_lock, now, hist_vars>>

\* The wrapped function returns (response, status).
DecoratedHandlerReturn(t, st) ==
    /\ pc[t] = "dhandler"
    /\ Goto(t, AfterDecoratedHandler([req[t] EXCEPT !.hstatus = st]))
    /\ UNCHANGED <<config_vars, limiter_vars, throttler_vars, now, hist_vars>>

\* An exception leaves the wrapped function.
DecoratedHandlerRaise(t) ==
    /\ pc[t] = "dhandler"
    /\ Goto(t, AfterDecoratedHandler([req[t] EXCEPT !.raised = TRUE]))
    /\ UNCHANGED <<config_vars, limiter_vars, throttler_vars, now, hist_vars>>

\* request_throttler.release() in apply_throttling's finally block.
DecoratedRelease(t) ==
    /\ pc[t] = "drelease"
    /\ LockFree(th_lock)
    /\ current_requests' = ReleaseCount(current_requests)
    /\ semaphore' = semaphore + 1
    /\ Goto(t, AfterDecoratedRelease([req[t] EXCEPT !.nRelease = @ + 1]))
    /\ UNCHANGED <<config_vars, limiter_vars, th_lock, now, hist_vars>>

NextDecorated ==
    \/ \E t \in Threads : StartRequest(t, "translate")
    \/ \E t \in Threads : Check(t)
    \/ \E t \in Threads : Acquire(t)
    \/ \E t \in Threads, st \in HandlerStatuses : HandlerReturn(t, st)
    \/ \E t \in Threads : HandlerRaise(t)
    \/ \E t \in Threads : Release(t)
    \/ \E t \in Threads : StartDecorated(t)
    \/ \E t \in Threads : DecoratedCheck(t)
    \/ \E t \in Threads : DecoratedAcquire(t)
    \/ \E t \in Threads, st \in HandlerStatuses : DecoratedHandlerReturn(t, st)
    \/ \E t \in Threads : DecoratedHandlerRaise(t)
    \/ \E t \in Threads : DecoratedRelease(t)
    \/ Tick

\* Requests served by the inline route and by the decorated function, side by
\* side.
SpecDecorated == Init /\ [][NextDecorated]_vars

\* --------------------------------------------- process_translation_request
\* The /translate route with the handler it calls.  What the handler reads
\* of a request: the Content-Type (ctype), for JSON whether the parsed body
\* is an object or not one (body: the JSON document null, for which req.json
\* is None), the three required fields, the outputFormat field and, of the
\* text, whether it is a string and its length (text "null" is a JSON value
\* without a length: null, a number, a boolean).  Form and query values are
\* strings; "absent" is a key or parameter that is not there.  backend says
\* whether translation_manager.translate, if the handler comes to call it,
\* returns or raises.
OutputFormats == {"json", "text"}
AvailablePackages == {<<"en", "es">>}
TextLengths == 0..(MaxChars + 1)

RequestInputs ==
    {r \in [ctype : {"json", "form"}, body : {"object", "null"},
            text : {"absent", "null", "str"}, len : TextLengths,
            source : {"absent", "en"}, target : {"absent", "es", "ja"},
            outputFormat : {"absent", "json", "text", "xml"},
            backend : {"returns", "raises"}] :
        /\ (r.text # "str" => r.len = 0)
        /\ (r.ctype = "form" => r.body = "object" /\ r.text # "null")
        /\ (r.body = "null" =>
                /\ r.text = "absent" /\ r.source = "absent"
                /\ r.target = "absent" /\ r.outputFormat = "absent")
        /\ (r.backend = "raises" =>
                /\ r.text = "str" /\ r.len = 1
                /\ r.source = "en" /\ r.target = "es")}

\* What process_translation_request returns: the status and the number of
\* calls it made to translation_manager.translate.
Handled(st, n) == [status |-> st, translate |-> n]

\* except Exception: ... return jsonify({"error": "Internal server error"}), 500
InternalError(n) == Handled(500, n)

\* The checks after the fields were read, with the output format fmt: format,
\* character limit, language pair, then the translation.  len(text) raises
\* TypeError for a text without a length.
Validate(r, fmt) ==
    IF fmt \notin OutputFormats THEN Handled(400, 0)
    ELSE IF r.text = "null" THEN InternalError(0)
    ELSE IF r.len > MaxChars THEN Handled(400, 0)
    ELSE IF <<r.source, r.target>> \notin AvailablePackages THEN Handled(400, 0)
    ELSE IF r.backend = "raises" THEN InternalError(1)
    ELSE Handled(OkStatus, 1)

\* process_translation_request(req, ...).  For JSON, key in data raises
\* TypeError when data is None; a form value that is missing or empty is
\* falsy.
process_translation_request(r) ==
    IF r.ctype = "json"
    THEN IF r.body = "null" THEN InternalError(0)
         ELSE IF "absent" \in {r.text, r.source, r.target} THEN Handled(400, 0)
         ELSE Validate(r, IF r.outputFormat = "absent" THEN "json" ELSE r.outputFormat)
    ELSE IF \/ r.text = "absent" \/ (r.text = "str" /\ r.len = 0)
            \/ r.source = "absent" \/ r.target = "absent"
         THEN Handled(400, 0)
         ELSE Validate(r, IF r.outputFormat = "absent" THEN "text" ELSE r.outputFormat)

\* The thread that serves the requests of this specification.
Worker == CHOOSE t \in Threads : TRUE

\* A /translate request arrives with its content: the request keeps the
\* input it came with and counts the translate calls made for it.
Arrive(r) ==
    /\ pc[Worker] \in {"idle", "done"}
    /\ Goto(Worker, FirstStep([input |-> r, nTranslate |-> 0] @@ NewRequest("translate")))
    /\ UNCHANGED <<config_vars, limiter_vars, throttler_vars, now, hist_vars>>

\* The route calls process_translation_request on the request it is serving.
Process(t) ==
    /\ pc[t] = "handler"
    /\ LET out == process_translation_request(req[t].input)
       IN Goto(t, AfterHandler([req[t] EXCEPT !.hstatus = out.status,
                                              !.nTranslate = @ + out.translate]))
    /\ UNCHANGED <<config_vars, limiter_vars, throttler_vars, now, hist_vars>>

NextHandler ==
    \/ \E r \in RequestInputs : Arrive(r)
    \/ Check(Worker)
    \/ Acquire(Worker)
    \/ Process(Worker)
    \/ Release(Worker)
    \/ Tick

\* One worker serving /translate requests of every content, one after the
\* other.
SpecHandler == Init /\ [][NextHandler]_vars

\* ------------------------------------------ TranslationPackageManager.translate
\* What a call of translate meets in the translation library and in the
\* manager: whether get_installed_languages returns or raises (languages),
\* whether the languages it returns hold from_code and to_code, what
\* from_lang.get_translation(to_lang) does (a translation object, None, an
\* exception), what translation.translate(text) does (returns, raises
\* LanguageNotInstalledError, raises another Exception), and what
\* install_package(from_code, to_code) would return if it were called.
BackendWorlds ==
    [languages : {"returns", "raises"}, from_lang : BOOLEAN, to_lang : BOOLEAN,
     translation : {"ok", "none", "raises"},
     backend : {"returns", "not_installed", "raises"},
     install : {"succeeds", "fails"}]

\* What translate did: its result, "fallback" for fallback_response,
\* "translated" for the translated text, "raised" for an exception that left
\* it, and the calls it made to self.install_package.
Translated(res, n) == [result |-> res, installs |-> n]

\* translate(text, from_code, to_code, fallback_response): the whole body is
\* in a try whose except clauses both return fallback_response, and no
\* statement of it calls install_package.
translate(w) ==
    IF w.languages = "raises" THEN Translated("fallback", 0)
    ELSE IF ~w.from_lang THEN Translated("fallback", 0)
    ELSE IF ~w.to_lang THEN Translated("fallback", 0)
    ELSE IF w.translation # "ok" THEN Translated("fallback", 0)
    ELSE IF w.backend # "returns" THEN Translated("fallback", 0)
    ELSE Translated("translated", 0)

\* The worker calls translation_manager.translate in the world w.
CallTranslate(w) ==
    /\ pc[Worker] \in {"idle", "done"}
    /\ Goto(Worker, <<"translating",
                      [world |-> w, result |-> "none", nInstall |-> 0]
                          @@ NewRequest("translation")>>)
    /\ UNCHANGED <<config_vars, limiter_vars, throttler_vars, now, hist_vars>>

\* translate returns, or an exception leaves it.
TranslateReturn ==
    /\ pc[Worker] = "translating"
    /\ LET out == translate(req[Worker].world)
       IN Goto(Worker, <<"done", [req[Worker] EXCEPT !.result = out.result,
                                                      !.nInstall = @ + out.installs,
                                                      !.raised = out.result = "raised"]>>)
    /\ UNCHANGED <<config_vars, limiter_vars, throttler_vars, now, hist_vars>>

NextTranslate ==
    \/ \E w \in BackendWorlds : CallTranslate(w)
    \/ TranslateReturn

\* Calls of translate on the manager itself, one after the other, in every
\* state of the library.
SpecTranslate == Init /\ [][NextTranslate]_vars

\* ------------------------------------------------------------ properties
Done(t) == pc[t] = "done"
Translate(t) == req[t].route = "translate"
Executing == {t \in Threads : pc[t] = "handler"}

\* C1: after every check() call, whatever the time elapsed between the calls,
\* the balance is at least 0 and at most burst.
C1_TokenBounds == 0 <= tokens /\ tokens <= burst * TokenUnit

\* C1, the case: a check() made after time has passed has taken the last token.
C1_Witness ==
    /\ rate_enabled
    /\ last_check > 0
    /\ tokens = 0
    /\ \E t \in Threads : Done(t) /\ req[t].rate_pass = "yes"

\* C2: of the check() calls made at one instant on a balance of tokens0, at
\* most floor(tokens0) are allowed, each allowed call deducts exactly one
\* token, and the balance never goes below zero.
C2_NoDoubleSpend ==
    LET allowed == {t \in Threads : req[t].gate_result = "yes" \/ req[t].rate_pass = "yes"}
        deducted == {t \in Threads : req[t].rate_pass = "yes"}
    IN /\ Cardinality(allowed) <= tokens0 \div TokenUnit
       /\ tokens = tokens0 - TokenUnit * Cardinality(deducted)
       /\ tokens >= 0

\* C2, the case: every thread has called check() at that instant, one was
\* allowed and one was denied for want of a token.
C2_Witness ==
    /\ \A t \in Threads : Done(t)
    /\ \E t \in Threads : req[t].rate_pass = "yes"
    /\ \E t \in Threads : req[t].rate_pass = "no"

\* C3: with throttling enabled, at most max_concurrent requests execute the
\* translation handler at the same time.
C3_ConcurrencyCap ==
    throttle_enabled => Cardinality(Executing) <= max_concurrent

\* C4: current_requests stays within 0..max_concurrent for every sequence of
\* acquire() and release() calls, unmatched release() calls included.
C4_CountInRange == 0 <= current_requests /\ current_requests <= max_concurrent

\* C5: with throttling enabled a /translate request releases exactly once
\* after a successful acquire(), on every exit path and not before the handler
\* has ended, and never after a denied acquire() or without one.
C5_BalancedRelease ==
    \A t \in Threads :
        (throttle_enabled /\ Translate(t)) =>
            /\ req[t].nAcquire <= 1
            /\ req[t].nRelease <= req[t].nAcquire
            /\ (req[t].throttle_pass # "yes") => req[t].nRelease = 0
            /\ (pc[t] = "handler") => req[t].nRelease = 0
            /\ (Done(t) /\ req[t].throttle_pass = "yes") => req[t].nRelease = 1

\* C5, the case: the handler raised while the slot was held, and the request
\* has ended with its one release.
C5_Witness ==
    \E t \in Threads :
        /\ throttle_enabled /\ Translate(t) /\ Done(t)
        /\ req[t].throttle_pass = "yes" /\ req[t].raised /\ req[t].nRelease = 1

\* C6: with both gates enabled, a /translate response is 429 exactly when
\* check() denied, 503 exactly when check() allowed and acquire() denied, and
\* otherwise carries the status the handler returned (a handler that raised
\* returned none).
C6_StatusCodes ==
    \A t \in Threads :
        (rate_enabled /\ throttle_enabled /\ Translate(t) /\ Done(t)) =>
            /\ (req[t].status = RateDeniedStatus) <=> (req[t].rate_pass = "no")
            /\ (req[t].status = ThrottleDeniedStatus) <=>
                   (req[t].rate_pass = "yes" /\ req[t].throttle_pass = "no")
            /\ (req[t].rate_pass = "yes" /\ req[t].throttle_pass = "yes") =>
                   /\ req[t].nHandler = 1
                   /\ ~req[t].raised => req[t].status = req[t].hstatus

\* C6, the case: one request answered 503 while another is answered with the
\* handler's own status.
C6_Witness ==
    /\ rate_enabled /\ throttle_enabled
    /\ \E t \in Threads : Translate(t) /\ Done(t) /\ req[t].status = ThrottleDeniedStatus
    /\ \E t \in Threads : Translate(t) /\ Done(t) /\ req[t].nHandler = 1
                          /\ req[t].status = 400

\* C7: a /translate request that check() denies ends there with 429: it makes
\* no acquire(), release() or handler call, and the step that denies it leaves
\* the throttler as it was.
C7_RateDeniedTouchesNoSlot ==
    [][\A t \in Threads :
          (req'[t].route = "translate" /\ req'[t].rate_pass = "no") =>
              /\ pc'[t] = "done"
              /\ req'[t].status = RateDeniedStatus
              /\ req'[t].nAcquire = 0 /\ req'[t].nRelease = 0 /\ req'[t].nHandler = 0
              /\ (req[t] # req'[t]) => UNCHANGED throttler_vars]_vars

\* C7, the case: check() denied a /translate request while throttling is
\* enabled and another request holds the slot.
C7_Witness ==
    /\ throttle_enabled
    /\ current_requests > 0
    /\ \E t \in Threads : Translate(t) /\ Done(t) /\ req[t].rate_pass = "no"

\* C8: with both gates enabled, a /translate request that check() allows and
\* acquire() denies is answered 503 with the rate-limit and the throttle
\* headers, and the handler is not invoked for it.
C8_OverloadedResponse ==
    \A t \in Threads :
        (rate_enabled /\ throttle_enabled /\ Translate(t)
           /\ req[t].rate_pass = "yes" /\ req[t].throttle_pass = "no") =>
            /\ Done(t)
            /\ req[t].status = ThrottleDeniedStatus
            /\ req[t].headers = RateHeaderNames \cup ThrottleHeaderNames
            /\ req[t].nHandler = 0

\* C8, the case: such a request has been answered.
C8_Witness ==
    \E t \in Threads :
        /\ rate_enabled /\ throttle_enabled /\ Translate(t) /\ Done(t)
        /\ req[t].rate_pass = "yes" /\ req[t].throttle_pass = "no"

\* C9: a disabled gate is not called by any request: its state does not
\* change and no response carries its headers.
C9_DisabledGateNoOp ==
    [][/\ ~rate_enabled =>
            /\ UNCHANGED limiter_vars
            /\ \A t \in Threads :
                  /\ req'[t].nCheck = 0
                  /\ req'[t].headers \cap (RateHeaderNames \cup {RetryAfterName}) = {}
       /\ ~throttle_enabled =>
            /\ UNCHANGED throttler_vars
            /\ \A t \in Threads :
                  /\ req'[t].nAcquire = 0 /\ req'[t].nRelease = 0
                  /\ req'[t].headers \cap ThrottleHeaderNames = {}]_vars

\* C9, the case: with rate limiting disabled and throttling enabled a
\* /translate and a /health request have been answered with the throttle
\* headers only.
C9_Witness ==
    /\ ~rate_enabled /\ throttle_enabled
    /\ \E t \in Threads : Translate(t) /\ Done(t) /\ req[t].headers = ThrottleHeaderNames
    /\ \E t \in Threads : req[t].route = "health" /\ Done(t)
                          /\ req[t].headers = ThrottleHeaderNames

\* C10: check() never fails, whatever the configuration: no request ends
\* with an exception that did not come from the handler.
C10_CheckNeverFails ==
    \A t \in Threads : req[t].raised => req[t].nHandler > 0

\* C11: a configuration with a zero or negative rate, burst or capacity is
\* rejected when the gates are built, so no request passes through a gate
\* built from one: a request that has called check() met a positive rate and
\* burst, one that has called acquire() a positive capacity.
C11_InvalidConfigRejected ==
    \A t \in Threads :
        /\ req[t].nCheck > 0 => (requests_per_minute > 0 /\ burst > 0)
        /\ req[t].nAcquire > 0 => max_concurrent > 0

\* C12: on a freshly built limiter and with no time elapsing, exactly burst
\* consecutive check() calls are allowed, the balance is then 0, and every
\* further call is denied with a Retry-After equal to the whole seconds until
\* one token is available (the least number of seconds after which the
\* balance has reached one token); with rate 60 and burst 10 the eleventh call
\* is denied with Retry-After 1.
C12_BurstThenRetryAfter ==
    now = 0 =>
        /\ hist.allowed = IF hist.calls <= burst THEN hist.calls ELSE burst
        /\ hist.calls >= burst => tokens = 0
        /\ hist.calls > burst =>
              /\ ~ret.allowed
              /\ ret.headers[RetryAfterName] * requests_per_minute
                    >= TokenUnit - ret.balance
              /\ (ret.headers[RetryAfterName] - 1) * requests_per_minute
                    < TokenUnit - ret.balance
        /\ (requests_per_minute = 60 /\ burst = 10 /\ hist.calls = 11) =>
              (hist.allowed = 10 /\ ret.headers[RetryAfterName] = 1)

\* C13: check() replenishes the balance it finds by exactly
\* elapsed * requests_per_minute / 60 tokens, capped at burst (both sides are
\* written in units of 1/60 of a model unit, so that the division by 60 is
\* exact); with rate 60, a
\* call made 1 second after the balance reached 0 is allowed and leaves 0,
\* and a call made with no time elapsed on a balance of 0 is denied.
C13_Replenishment ==
    ret.op = "check" =>
        /\ ret.elapsed >= 0
        /\ 60 * ret.balance =
              IF 60 * ret.prev + ret.elapsed * requests_per_minute * TokenUnit
                    > 60 * burst * TokenUnit
              THEN 60 * burst * TokenUnit
              ELSE 60 * ret.prev + ret.elapsed * requests_per_minute * TokenUnit
        /\ (requests_per_minute = 60 /\ ret.prev = 0 /\ ret.elapsed = 1) =>
              (ret.allowed /\ tokens = 0)
        /\ (ret.prev = 0 /\ ret.elapsed = 0) => (~ret.allowed /\ tokens = 0)

C13_Witness ==
    /\ requests_per_minute = 60
    /\ hist.calls = burst + 2
    /\ hist.allowed = burst + 1
    /\ ret.op = "check"
    /\ ret.prev = 0
    /\ ret.elapsed = 0
    /\ ~ret.allowed
    /\ now = 1

\* C14: as long as release() is called by holders of a slot only, acquire()
\* is allowed exactly when the current_requests it finds is below
\* max_concurrent; an allowed acquire() increments current_requests by exactly
\* 1 and reports X-Throttle-Usage as the incremented count and
\* X-Throttle-Remaining as max_concurrent minus it; and once a holder's
\* release() has returned, and until the next call begins, a permit is free
\* and current_requests is below max_concurrent, so that the next acquire()
\* is allowed.
C14_AcquireDecision ==
    (hist.strays = 0 /\ StraysInFlight = {}) =>
        /\ ret.op = "acquire" =>
              /\ ret.allowed <=> ret.prev < max_concurrent
              /\ ret.allowed =>
                    /\ ret.balance = ret.prev + 1
                    /\ ret.headers["X-Throttle-Usage"] = ret.prev + 1
                    /\ ret.headers["X-Throttle-Remaining"]
                          = max_concurrent - (ret.prev + 1)
                    /\ ret.headers["X-Throttle-Limit"] = max_concurrent
        /\ (ret.op = "release" /\ th_lock = {}) =>
              /\ SemTryAcquire(semaphore)
              /\ current_requests < max_concurrent

C14_Witness ==
    /\ hist.strays = 0
    /\ StraysInFlight = {}
    /\ ret.op = "acquire"
    /\ ret.allowed
    /\ ret.headers["X-Throttle-Usage"] = max_concurrent
    /\ ret.headers["X-Throttle-Remaining"] = 0
    /\ \E t, u \in Threads :
          /\ pc[t] = "holding"
          /\ pc[u] = "done"
          /\ req[u].route = "release"

\* C15: an acquire() that is denied changes neither the semaphore nor
\* current_requests, in the step that tries the semaphore and in the step
\* that returns, and reports X-Throttle-Remaining 0, with the unchanged count
\* as X-Throttle-Usage.
C15_DeniedAcquireNoChange ==
    [][\A t \in Threads :
          /\ (pc[t] = "acquire" /\ pc'[t] = "acquire_locked"
                /\ req'[t].gate_result = "no") =>
                UNCHANGED <<semaphore, current_requests>>
          /\ (pc[t] = "acquire_locked" /\ req[t].gate_result = "no"
                /\ pc'[t] # "acquire_locked") =>
                /\ UNCHANGED <<semaphore, current_requests>>
                /\ ret'.op = "acquire"
                /\ ~ret'.allowed
                /\ ret'.headers["X-Throttle-Remaining"] = 0
                /\ ret'.headers["X-Throttle-Usage"] = current_requests
                /\ ret'.prev_sem = 0
      ]_vars

C15_Witness ==
    /\ ret.op = "acquire"
    /\ ~ret.allowed
    /\ ret.headers["X-Throttle-Remaining"] = 0
    /\ semaphore = 0
    /\ current_requests = max_concurrent
    /\ \E t \in Threads : pc[t] = "done" /\ req[t].throttle_pass = "no"

C17_NoLockInHandler ==
    /\ \A t \in Threads :
          pc[t] = "handler" => (t \notin rl_lock /\ t \notin th_lock)
    /\ \A u \in rl_lock : pc[u] = "check_locked"
    /\ \A u \in th_lock : pc[u] \in {"acquire_locked", "release_locked"}
    /\ \A t \in Threads :
          /\ (pc[t] = "check" /\ \A u \in Threads : pc[u] # "check_locked")
                => ENABLED CheckEnter(t)
          /\ (pc[t] = "acquire"
                /\ \A u \in Threads : pc[u] \notin {"acquire_locked", "release_locked"})
                => ENABLED AcquireEnter(t)

C17_Witness ==
    /\ rate_enabled
    /\ throttle_enabled
    /\ \E t, u \in Threads :
          /\ pc[t] = "handler"
          /\ pc[u] = "acquire_locked"
          /\ u \in th_lock
          /\ t \notin th_lock

\* C18: under a fair scheduler every check(), acquire() and release() call
\* that has begun returns, whatever the other threads call and whether or not
\* a token or a slot is left: no call waits for a token or for a slot, and the
\* two locks never block each other.
C18_CallsTerminate ==
    \A t \in Threads : InCall(t) ~> ~InCall(t)

C18_Witness ==
    /\ semaphore = 0
    /\ tokens < TokenUnit
    /\ \E t, u \in Threads :
          /\ pc[t] = "acquire"
          /\ pc[u] = "holding"

\* C19: a /translate request calls acquire() only after check() allowed it
\* (when the rate gate is enabled), runs the handler only after every enabled
\* gate allowed it, and calls release() only after the handler has ended: the
\* order is rate check, acquire, handler, release.
C19_GateOrder ==
    \A t \in Threads :
        Translate(t) =>
            /\ req[t].nAcquire > 0 =>
                  (rate_enabled => (req[t].nCheck = 1 /\ req[t].rate_pass = "yes"))
            /\ req[t].nHandler > 0 =>
                  /\ rate_enabled => (req[t].nCheck = 1 /\ req[t].rate_pass = "yes")
                  /\ throttle_enabled =>
                        (req[t].nAcquire = 1 /\ req[t].throttle_pass = "yes")
            /\ req[t].nRelease > 0 => (req[t].nHandler = 1 /\ pc[t] # "handler")
            /\ pc[t] = "check" => (req[t].nAcquire = 0 /\ req[t].nHandler = 0)
            /\ pc[t] = "acquire" => req[t].nHandler = 0

C19_Witness ==
    /\ rate_enabled
    /\ throttle_enabled
    /\ \E t \in Threads :
          /\ Translate(t)
          /\ Done(t)
          /\ req[t].nCheck = 1
          /\ req[t].nAcquire = 1
          /\ req[t].nHandler = 1
          /\ req[t].nRelease = 1

\* C20: the elapsed time check() computes is never negative, even when the
\* wall clock is set back: the balance is never negative, and it goes down
\* only by the one token that an allowed check() deducts.
C20_ClockNeverLowersBalance ==
    [][/\ tokens' >= 0
       /\ tokens' < tokens =>
             /\ tokens' >= tokens - TokenUnit
             /\ \E t \in Threads :
                   /\ req'[t].nCheck = req[t].nCheck + 1
                   /\ req'[t].rate_pass = "yes"
      ]_vars

\* C21: when the handler raises while the request holds a slot, the route
\* calls release() before it ends and the exception leaves the route: the
\* request never gets a response status, it is not done before release() was
\* called, and release() is called exactly once.
C21_ReleaseThenPropagate ==
    \A t \in Threads :
        (Translate(t) /\ req[t].raised) =>
            /\ req[t].nHandler = 1
            /\ req[t].status = 0
            /\ pc[t] \in {"release", "done"}
            /\ throttle_enabled =>
                  /\ req[t].throttle_pass = "yes"
                  /\ pc[t] = "release" => req[t].nRelease = 0
                  /\ Done(t) => req[t].nRelease = 1
            /\ ~throttle_enabled => Done(t)

C21_Witness ==
    /\ throttle_enabled
    /\ \E t \in Threads :
          /\ Translate(t)
          /\ Done(t)
          /\ req[t].raised
          /\ req[t].nRelease = 1
          /\ req[t].status = 0

\* C22: a sole caller that was denied, waits the number of seconds its
\* Retry-After header gave and calls check() again is allowed.
C22_RetryAfterSuffices ==
    (ret.op = "check" /\ ret.told >= 0 /\ ret.elapsed = ret.told) => ret.allowed

\* C23 (as stated): the X-RateLimit-Reset of check() is
\* round(60 * (1 - tokens / requests_per_minute)), with tokens the balance
\* after replenishment and before the deduction (round is to the nearest
\* integer, a half going to the even one).
C23_ResetRounded ==
    ret.op = "check" =>
        LET n == 60 * requests_per_minute - ret.balance
            q == n \div requests_per_minute
            r == n - q * requests_per_minute
            rounded == IF 2 * r < requests_per_minute THEN q
                       ELSE IF 2 * r > requests_per_minute THEN q + 1
                       ELSE IF q % 2 = 0 THEN q ELSE q + 1
        IN ret.headers["X-RateLimit-Reset"] = rounded

\* C23 (amended): the X-RateLimit-Reset of check() is
\* 60 * (1 - tokens / requests_per_minute) truncated towards zero, with tokens
\* the balance after replenishment and before the deduction.
C23_ResetTruncated ==
    ret.op = "check" =>
        LET n == 60 * requests_per_minute - ret.balance
            h == ret.headers["X-RateLimit-Reset"]
        IN /\ ret.balance = tokens + (IF ret.allowed THEN TokenUnit ELSE 0)
           /\ n >= 0 => (h * requests_per_minute <= n
                          /\ n < (h + 1) * requests_per_minute)
           /\ n < 0 => ((h - 1) * requests_per_minute < n
                         /\ n <= h * requests_per_minute)

C23_Witness ==
    /\ ret.op = "check"
    /\ ret.allowed
    /\ requests_per_minute = 100
    /\ ret.balance = 2 * TokenUnit
    /\ ret.headers["X-RateLimit-Reset"] = 58

\* C24: the X-RateLimit-Reset of every check() lies between 0 and 60,
\* whatever the positive rate and the burst, a burst above the rate included.
C24_ResetInRange ==
    ret.op = "check" =>
        /\ ret.headers["X-RateLimit-Reset"] >= 0
        /\ ret.headers["X-RateLimit-Reset"] <= 60

\* C25: as long as release() is called by holders of a slot only, and between
\* calls (no thread is inside the throttler's lock), the permits left in the
\* semaphore and current_requests add up to max_concurrent.
C25_CountersAgree ==
    (hist.strays = 0 /\ th_lock = {}) =>
        semaphore + current_requests = max_concurrent

C25_Witness ==
    /\ hist.strays = 0
    /\ StraysInFlight = {}
    /\ th_lock = {}
    /\ ret.op = "acquire"
    /\ ret.allowed
    /\ semaphore = 0
    /\ current_requests = max_concurrent
    /\ \E t, u \in Threads :
          /\ pc[t] = "holding"
          /\ pc[u] = "done"
          /\ req[u].route = "release"
          /\ req[u].nRelease = 1

\* C26: over the interval that begins when an observer starts counting and
\* has lasted t = now - from seconds, the check() calls allowed are at most
\* burst + t * requests_per_minute / 60, whenever the interval begins and
\* whatever calls were made before and during it.
C26_AllowedBound ==
    hist.from >= 0 =>
        hist.since * TokenUnit
            <= burst * TokenUnit + (now - hist.from) * requests_per_minute

C26_Witness ==
    /\ hist.from = 1
    /\ now = 2
    /\ requests_per_minute = 60
    /\ hist.since * TokenUnit
          = burst * TokenUnit + (now - hist.from) * requests_per_minute
    /\ ret.op = "check"
    /\ ~ret.allowed

\* C27: a denied check() deducts nothing: it leaves the balance at the
\* replenished value, which is below one token and is the balance it found
\* plus the whole credit of the elapsed time, and it sets last_check to the
\* time of the call; so the moment at which one token is available is the
\* same after the call as before it.  An allowed check() leaves the
\* replenished balance less one token.
C27_DeniedDeductsNothing ==
    ret.op = "check" =>
        /\ last_check = ret.at
        /\ ret.allowed => tokens = ret.balance - TokenUnit
        /\ ~ret.allowed =>
              /\ tokens = ret.balance
              /\ ret.balance < TokenUnit
              /\ ret.balance = ret.prev + ret.elapsed * requests_per_minute

C27_Witness ==
    /\ ret.op = "check"
    /\ ~ret.allowed
    /\ ret.told >= 0
    /\ ret.elapsed > 0
    /\ ret.prev > 0
    /\ tokens = ret.prev + ret.elapsed * requests_per_minute

\* C28: the check() of a /translate request that it allows leaves the
\* balance at the replenished value less one token, and the step in which the
\* throttler then rejects the request with 503 changes neither the balance
\* nor last_check: the token is not given back.
C28_NoRefundOn503 ==
    [][\A t \in Threads :
          /\ (pc[t] = "check" /\ Translate(t) /\ req'[t].rate_pass = "yes") =>
                LET credit == tokens + (now - last_check) * requests_per_minute
                    cap == burst * TokenUnit
                IN tokens' = (IF credit > cap THEN cap ELSE credit) - TokenUnit
          /\ (pc[t] = "acquire" /\ Translate(t) /\ req[t].rate_pass = "yes"
                /\ req'[t].status = ThrottleDeniedStatus) =>
                /\ pc'[t] = "done"
                /\ UNCHANGED <<tokens, last_check>>
      ]_vars

C28_Witness ==
    /\ tokens = 0
    /\ last_check > 0
    /\ \E t \in Threads :
          /\ Translate(t)
          /\ Done(t)
          /\ req[t].rate_pass = "yes"
          /\ req[t].status = ThrottleDeniedStatus

\* C29: a /health or /config request is never rejected: it runs no handler,
\* raises nothing and ends with status 200 whether check() and acquire()
\* allowed or denied it; yet its check() takes a token like any other: as long
\* as no time has passed, the balance is the initial one less one token for
\* every request that check() allowed, so that a /translate request can be
\* rejected with 429 for want of a token a /health request took.
C29_HealthNeverRejected ==
    /\ \A t \in Threads :
          req[t].route = "health" =>
              /\ ~req[t].raised
              /\ req[t].nHandler = 0
              /\ req[t].status \in {0, OkStatus}
              /\ Done(t) => req[t].status = OkStatus
    /\ now = 0 =>
          tokens <= tokens0
                     - TokenUnit * Cardinality({t \in Threads : req[t].rate_pass = "yes"})

C29_Witness ==
    /\ now = 0
    /\ tokens = 0
    /\ \E t, u \in Threads :
          /\ req[t].route = "health"
          /\ Done(t)
          /\ req[t].rate_pass = "yes"
          /\ req[t].throttle_pass = "no"
          /\ req[t].status = OkStatus
          /\ Translate(u)
          /\ Done(u)
          /\ req[u].status = RateDeniedStatus

\* C30: with a positive rate and a burst of at least 1, the limiter never
\* locks out for ever: when time keeps advancing and check() keeps being
\* called, every denied check() is followed, sooner or later, by an allowed
\* one.
C30_NoPermanentLockout ==
    (ret.op = "check" /\ ~ret.allowed) ~> (ret.op = "check" /\ ret.allowed)

C30_Witness ==
    /\ ret.op = "check"
    /\ ret.allowed
    /\ ret.told >= 0
    /\ ret.prev > 0
    /\ ret.prev < TokenUnit
    /\ ret.elapsed > 0

\* C31: a request served by apply_rate_limit(apply_throttling(f)) and a
\* request served by the inline /translate route that met the same answers of
\* the two gates and the same handler outcome end the same way: the same
\* status, returned rather than raised, the same gate headers on the response,
\* and the same calls of check(), acquire() and release(), which are the
\* changes made to tokens and current_requests.
C31_DecoratorsAsInline ==
    \A t, u \in Threads :
        (/\ Done(t) /\ req[t].route = "translate"
         /\ Done(u) /\ req[u].route = "decorated"
         /\ req[t].rate_pass = req[u].rate_pass
         /\ req[t].throttle_pass = req[u].throttle_pass
         /\ req[t].nHandler = req[u].nHandler
         /\ req[t].hstatus = req[u].hstatus
         /\ (req[t].nHandler = 1 => req[t].raised = req[u].raised))
        => /\ req[t].status = req[u].status
           /\ req[t].raised = req[u].raised
           /\ (~req[t].raised => req[t].headers = req[u].headers)
           /\ req[t].nCheck = req[u].nCheck
           /\ req[t].nAcquire = req[u].nAcquire
           /\ req[t].nRelease = req[u].nRelease

\* What C32 calls an invalid request: a required field is missing, the
\* output format is not supported, the text is longer than
\* max_chars_per_request, or the language pair is not supported.
MissingField(r) ==
    \/ r.ctype = "json" /\ r.body = "null"
    \/ "absent" \in {r.text, r.source, r.target}
    \/ r.ctype = "form" /\ r.text = "str" /\ r.len = 0
UnsupportedFormat(r) == r.outputFormat \notin OutputFormats \cup {"absent"}
TextTooLong(r) == r.text = "str" /\ r.len > MaxChars
UnsupportedPair(r) ==
    /\ "absent" \notin {r.source, r.target}
    /\ <<r.source, r.target>> \notin AvailablePackages
InvalidRequest(r) ==
    MissingField(r) \/ UnsupportedFormat(r) \/ TextTooLong(r) \/ UnsupportedPair(r)

\* C32: a /translate request that reached its handler with a missing required
\* field, an unsupported output format, a text longer than
\* max_chars_per_request or an unsupported language pair gets status 400
\* from the handler and as its response, translation_manager.translate was
\* not called for it, and with throttling enabled its slot was released.
C32_InvalidRequestRejected ==
    \A t \in Threads :
        (/\ req[t].route = "translate"
         /\ req[t].nHandler = 1
         /\ pc[t] \in {"release", "done"}
         /\ InvalidRequest(req[t].input))
        => /\ req[t].hstatus = 400
           /\ req[t].nTranslate = 0
           /\ Done(t) => /\ req[t].status = 400
                         /\ throttle_enabled => req[t].nRelease = 1

\* The cases of C33: the backend throws or a language is unavailable; the
\* requested pair is not installed.
BackendFails(w) ==
    \/ w.languages = "raises"
    \/ ~w.from_lang \/ ~w.to_lang
    \/ w.translation # "ok"
    \/ w.backend # "returns"
PairNotInstalled(w) == w.languages = "returns" /\ (~w.from_lang \/ ~w.to_lang)

\* C33: a call of translate that has ended did not raise; it returned
\* fallback_response when the backend threw or a language was unavailable;
\* and when the requested pair was not installed it called install_package
\* exactly once, returning fallback_response if the installation failed.
C33_TranslateFallsBack ==
    \A t \in Threads :
        (Done(t) /\ req[t].route = "translation")
        => LET w == req[t].world
           IN /\ req[t].result # "raised"
              /\ BackendFails(w) => req[t].result = "fallback"
              /\ PairNotInstalled(w) =>
                    /\ req[t].nInstall = 1
                    /\ w.install = "fails" => req[t].result = "fallback"

====
